---- MODULE Spec2Model ----
(***************************************************************************)
(* CalorieSnap: the App component (camera capture, file upload, meal       *)
(* analysis, the daily calorie ledger kept in localStorage) as a state     *)
(* machine.  One action per event handler or asynchronous completion; a    *)
(* re-render, and the persistence effects it triggers, are part of the     *)
(* action that changed the state.                                          *)
(***************************************************************************)
EXTENDS Integers, Sequences, FiniteSets, TLC

VARIABLES
    today,                \* the calendar day the clock shows (new Date())
    calorieLog,           \* localStorage item 'calorieLog'
    storedGoal,           \* localStorage item 'dailyCalorieGoal'
    storage,              \* "ok", "full" (setItem throws) or "denied" (every access throws)
    darkMode,
    darkModeItem,         \* localStorage's 'darkMode' item: "absent", "true" or "false"
    activeTab,
    image,
    isAnalyzing,
    analysis,
    error,
    cameraActive,
    mealLogged,
    dailyCalorieGoalStr,
    consumedCalories,     \* the integer part of the total when it is a number
    consumedKind,         \* what kind of JavaScript value the total is
    exercise,             \* the workout form's exercise text
    journeyFrom,
    journeyTo,
    workoutPlan,
    journeyPlan,
    selectedExercise,
    isPlanning,
    isCalculatingJourney,
    isFetchingExercise,
    pendingCalls,         \* the workout and journey calls in flight
    exerciseCalls,        \* how many getExerciseInfo calls wait for "text" (the text
                          \* request) and for "image" / "imageDefault" (the image
                          \* request, the explanation being the text / the default)
    srcObject,            \* videoRef.current.srcObject: a stream id, 0 for none
    streams,              \* per getUserMedia call: "unused", "pending", "live", "ended"
    videoWidth,
    videoHeight,
    pendingAnalysis,      \* the analyzeFoodImage call in flight
    pendingReads,         \* the FileReaders whose onloadend has not fired
    uncaught,             \* an exception left a handler
    stopCalls,            \* history: stopCamera calls in a row
    logCalls,             \* history: handleLogMeal calls on the analysis held, capped at 2
    timesAdded,           \* history: how often the analysis held was added to the total
    resetPhase,           \* history: "reset" after Reset Day, "logged" after the next meal
    dayLog,               \* history: per day, the amounts logged since its last reset
    runSum                \* history: the amounts logged since the total was last 0

vars == <<today, calorieLog, storedGoal, storage, darkMode, darkModeItem, activeTab, image, isAnalyzing, analysis,
          error, cameraActive, mealLogged, dailyCalorieGoalStr, consumedCalories,
          consumedKind, exercise, journeyFrom, journeyTo, workoutPlan, journeyPlan,
          selectedExercise, isPlanning, isCalculatingJourney, isFetchingExercise,
          pendingCalls, exerciseCalls, srcObject, streams, videoWidth, videoHeight,
          pendingAnalysis, pendingReads, uncaught, stopCalls, logCalls, timesAdded,
          resetPhase, dayLog, runSum>>

----------------------------------------------------------------------------
(* Bounds of the model *)

MaxDay == 2
MaxConsumed == 1500
MaxStreams == 1
MaxCalls == 2

Days == 1..MaxDay
StreamIds == 1..MaxStreams

(* Totals the analysis service answers with, files the user picks, goal    *)
(* texts the user types, native frame sizes of the camera.                 *)
Amounts == {600, 900}
Files == {1}
GoalStrs == {<<"2", "0", "0", "0">>, <<"1", "0", "0", "0">>}
FrameDims == {<<1920, 1080>>}

----------------------------------------------------------------------------
(* Values *)

(* An image: where it came from and, for a camera frame, the size of the   *)
(* canvas it was drawn on (canvas.toDataURL).  A file is passed through    *)
(* as read, so its size is not the program's: 0 by 0 here.                 *)
NoImage == [src |-> "none", id |-> 0, width |-> 0, height |-> 0]
FrameImage(s, w, h) == [src |-> "camera", id |-> s, width |-> w, height |-> h]
FileImage(f) == [src |-> "file", id |-> f, width |-> 0, height |-> 0]

NoAnalysis == [present |-> FALSE, totalCalories |-> 0, totalKind |-> "integer",
               hasItems |-> FALSE, of |-> NoImage]
NoRequest == [sent |-> FALSE, of |-> NoImage]
NoItem == [kind |-> "absent", date |-> 0, calories |-> 0, calKind |-> "integer"]

(* a workout plan or journey plan held: complete says that the object has  *)
(* the fields the service was asked for                                    *)
NoResult == [present |-> FALSE, complete |-> FALSE]
Result(complete) == [present |-> TRUE, complete |-> complete]

(* the exercise info held: its explanation is the service's text ("text")  *)
(* or 'No explanation available.' ("default"), and it has an imageUrl or   *)
(* not                                                                     *)
(* no getExerciseInfo call in flight *)
NoCalls == [phase \in {"text", "image", "imageDefault"} |-> 0]

NoInfo == [present |-> FALSE, explanation |-> "none", hasImage |-> FALSE]
ExerciseInfo(expl, hasImage) ==
    [present |-> TRUE, explanation |-> expl, hasImage |-> hasImage]

NoError == "none"
CameraError == "Could not access camera. Please ensure you've granted permission."
AnalysisError == "Analysis failed. Please try again with a clearer photo."
WorkoutError == "Failed to generate workout plan. Please try again."
JourneyError == "Failed to calculate journey. Please try again."
ExerciseError == "Failed to fetch exercise info."

DefaultGoalStr == <<"2", "0", "0", "0">>

----------------------------------------------------------------------------
(* parseInt(dailyCalorieGoalStr) || 0 *)

Digits == {"0", "1", "2", "3", "4", "5", "6", "7", "8", "9"}

DigitVal(c) ==
    CASE c = "0" -> 0 [] c = "1" -> 1 [] c = "2" -> 2 [] c = "3" -> 3
      [] c = "4" -> 4 [] c = "5" -> 5 [] c = "6" -> 6 [] c = "7" -> 7
      [] c = "8" -> 8 [] c = "9" -> 9

RECURSIVE SkipSpace(_)
SkipSpace(s) == IF s # <<>> /\ Head(s) = " " THEN SkipSpace(Tail(s)) ELSE s

RECURSIVE DigitRun(_, _)
(* the value of the longest prefix of digits, acc being the value so far *)
DigitRun(s, acc) ==
    IF s # <<>> /\ Head(s) \in Digits
    THEN DigitRun(Tail(s), acc * 10 + DigitVal(Head(s)))
    ELSE acc

(* parseInt: [nan |-> TRUE] when no digit follows the optional sign *)
parseInt(str) ==
    LET t == SkipSpace(str)
        neg == t # <<>> /\ Head(t) = "-"
        u == IF t # <<>> /\ Head(t) \in {"-", "+"} THEN Tail(t) ELSE t
    IN IF u = <<>> \/ Head(u) \notin Digits
       THEN [nan |-> TRUE, val |-> 0]
       ELSE [nan |-> FALSE, val |-> IF neg THEN 0 - DigitRun(u, 0) ELSE DigitRun(u, 0)]

GoalOf(str) == LET p == parseInt(str) IN IF p.nan THEN 0 ELSE p.val

dailyCalorieGoal == GoalOf(dailyCalorieGoalStr)

----------------------------------------------------------------------------
(* The ledger *)

getTodayKey == today

(* A calories value is kept as an integer together with its kind:         *)
(* "integer" n is n, "fraction" n is n + 1/2, and "NaN", "undefined",      *)
(* "null" and "string" are the values that are no number (integer part 0). *)
IsNumberKind(k) == k \in {"integer", "fraction"}

(* what JSON.stringify writes for a value and JSON.parse reads back: NaN   *)
(* is written as null, an undefined field is left out                      *)
storedKind(k) == IF k = "NaN" THEN "null" ELSE k

StringifyValue(date, calories, k) ==
    [kind |-> "record", date |-> date,
     calories |-> IF IsNumberKind(k) THEN calories ELSE 0,
     calKind |-> storedKind(k)]

(* JSON.stringify({ date, calories }) for an integer total *)
Stringify(date, calories) == StringifyValue(date, calories, "integer")

(* The item kinds: "absent" (getItem gives null), "empty" (the empty       *)
(* string), "notjson" (JSON.parse throws), "jsonnull" (parses to null: the *)
(* destructuring throws), "scalar" (parses to a number, string or boolean: *)
(* date and calories are undefined), "record" (parses to an object; date 0 *)
(* stands for a missing or foreign date).  Whatever is thrown is caught    *)
(* and 0 returned.                                                         *)
loadConsumedCalories(item, todayKey) ==
    IF item.kind = "record" /\ item.date = todayKey THEN item.calories ELSE 0

(* the kind of the value loadConsumedCalories returns *)
loadConsumedKind(item, todayKey) ==
    IF item.kind = "record" /\ item.date = todayKey THEN item.calKind ELSE "integer"

remainingCaloriesOf(goal, consumed) == goal - consumed

remainingCalories == remainingCaloriesOf(dailyCalorieGoal, consumedCalories)

isOverGoalOf(goal, consumed) == consumed > goal

isOverGoal == isOverGoalOf(dailyCalorieGoal, consumedCalories)

(* A JavaScript number as far as the progress bar needs it: a rational     *)
(* num/den with den > 0, NaN, or an infinity.                              *)
JsNum(n, d) == [kind |-> "num", num |-> n, den |-> d]
JsNaN == [kind |-> "nan", num |-> 0, den |-> 1]
JsInf == [kind |-> "inf", num |-> 1, den |-> 1]
JsNegInf == [kind |-> "inf", num |-> 0 - 1, den |-> 1]

(* (consumed / goal) * 100: division by 0 gives NaN for 0/0 and an         *)
(* infinity otherwise.                                                     *)
PercentOf(consumed, goal) ==
    IF goal = 0
    THEN (IF consumed = 0 THEN JsNaN ELSE IF consumed > 0 THEN JsInf ELSE JsNegInf)
    ELSE IF goal > 0 THEN JsNum(100 * consumed, goal)
         ELSE JsNum(0 - (100 * consumed), 0 - goal)

(* Math.min(x, k): NaN if x is NaN *)
MathMin(x, k) ==
    CASE x.kind = "nan" -> x
      [] x.kind = "inf" -> IF x.num > 0 THEN JsNum(k, 1) ELSE x
      [] OTHER -> IF x.num > k * x.den THEN JsNum(k, 1) ELSE x

(* the percentage without Math.min *)
progressPercentUnclamped(goal, consumed) == PercentOf(consumed, goal)

progressPercentOf(goal, consumed) == MathMin(PercentOf(consumed, goal), 100)

progressPercent == progressPercentOf(dailyCalorieGoal, consumedCalories)

(* x > k as JavaScript compares: false for NaN *)
JsGreater(x, k) ==
    CASE x.kind = "nan" -> FALSE
      [] x.kind = "inf" -> x.num > 0
      [] OTHER -> x.num > k * x.den

----------------------------------------------------------------------------
(* captureImage's canvas size.  width and height are doubles: the code     *)
(* multiplies one side by the rounded quotient maxDim / other, and the     *)
(* canvas attribute (an unsigned long) truncates what it is given.         *)

maxDim == 1024

RECURSIVE CeilLog2From(_, _)
CeilLog2From(d, k) == IF 2^k >= d THEN k ELSE CeilLog2From(d, k + 1)
CeilLog2(d) == CeilLog2From(d, 0)

RECURSIVE FloorLog2From(_, _)
FloorLog2From(n, e) == IF 2^(e + 1) > n THEN e ELSE FloorLog2From(n, e + 1)
FloorLog2(n) == FloorLog2From(n, 0)

IsPow2(n) == n = 2^FloorLog2(n)

RECURSIVE Pow2Mod(_, _)
(* 2^m modulo d *)
Pow2Mod(m, d) == IF m = 0 THEN 1 % d ELSE (2 * Pow2Mod(m - 1, d)) % d

(* trunc(n * (maxDim / d)) in IEEE double arithmetic, for 0 < n <= d and   *)
(* d > maxDim.  maxDim is a power of two, so the quotient q = maxDim / d   *)
(* is 2^m / d rounded to 53 bits and scaled, m = 52 + CeilLog2(d); its     *)
(* error is -r / 2^m when it was rounded down, r = 2^m mod d.  The product *)
(* n * q is rounded once more.  When n * maxDim / d is no integer the      *)
(* errors are far smaller than its distance to an integer and truncation   *)
(* gives the floor.  When it is an integer K, the product lies K * r / 2^m *)
(* below K and rounds back to K only if that is within half the gap to the *)
(* double below K.                                                         *)
ScaleSide(n, d) ==
    LET exact == (n * maxDim) \div d
        r == Pow2Mod(52 + CeilLog2(d), d)
    IN IF (n * maxDim) % d # 0 \/ IsPow2(d) \/ 2 * r > d
       THEN exact
       ELSE IF IsPow2(exact)
            THEN (IF exact * r <= 2^(CeilLog2(d) + FloorLog2(exact) - 2)
                  THEN exact ELSE exact - 1)
            ELSE (IF exact * r < 2^(CeilLog2(d) + FloorLog2(exact) - 1)
                  THEN exact ELSE exact - 1)

(* <<canvas.width, canvas.height>> for a frame of w by h *)
captureSize(w, h) ==
    IF w > h
    THEN (IF w > maxDim THEN <<maxDim, ScaleSide(h, w)>> ELSE <<w, h>>)
    ELSE (IF h > maxDim THEN <<ScaleSide(w, h), maxDim>> ELSE <<w, h>>)

----------------------------------------------------------------------------
(* What the render shows *)

InitialScreen == activeTab = "calorie" /\ image = NoImage /\ ~cameraActive
CameraScreen == activeTab = "calorie" /\ cameraActive
PreviewScreen == activeTab = "calorie" /\ ~cameraActive /\ image # NoImage

(* the <video> element exists, so videoRef.current is not null *)
videoMounted == CameraScreen

Tabs == {"calorie", "workout", "journey"}

(* useState(() => localStorage.getItem('darkMode') === 'true') *)
loadDarkMode(item) == item = "true"

(* String(darkMode) *)
String(flag) == IF flag THEN "true" ELSE "false"

NoGoalItem == [present |-> FALSE, text |-> <<>>]
GoalItem(str) == [present |-> TRUE, text |-> str]

(* localStorage.getItem('dailyCalorieGoal') || '2000' *)
loadGoalStr(item) ==
    IF item.present /\ item.text # <<>> THEN item.text ELSE DefaultGoalStr

(* history: a day that is neither today nor the stored record's day never  *)
(* matters again                                                           *)
Forget(dl, day, item) ==
    [d \in Days |-> IF d = day \/ (item.kind = "record" /\ item.date = d)
                    THEN dl[d] ELSE 0]

(* the workout and journey tabs as they are after a mount *)
IdleCoach ==
    /\ exercise = <<>>
    /\ journeyFrom = <<>>
    /\ journeyTo = <<>>
    /\ workoutPlan = NoResult
    /\ journeyPlan = NoResult
    /\ selectedExercise = NoInfo
    /\ isPlanning = FALSE
    /\ isCalculatingJourney = FALSE
    /\ isFetchingExercise = FALSE
    /\ pendingCalls = {}
    /\ exerciseCalls = NoCalls

----------------------------------------------------------------------------
(* The state after the first mount on day 1, localStorage being empty:     *)
(* the persistence effects have run once.                                  *)

Init ==
    /\ today = 1
    /\ consumedCalories = loadConsumedCalories(NoItem, 1)
    /\ consumedKind = loadConsumedKind(NoItem, 1)
    /\ dailyCalorieGoalStr = loadGoalStr(NoGoalItem)
    /\ calorieLog = Stringify(1, loadConsumedCalories(NoItem, 1))
    /\ storedGoal = GoalItem(loadGoalStr(NoGoalItem))
    /\ storage = "ok"
    /\ darkMode = loadDarkMode("absent")
    /\ darkModeItem = String(darkMode)
    /\ activeTab = "calorie"
    /\ image = NoImage
    /\ isAnalyzing = FALSE
    /\ analysis = NoAnalysis
    /\ error = NoError
    /\ cameraActive = FALSE
    /\ mealLogged = FALSE
    /\ IdleCoach
    /\ srcObject = 0
    /\ streams = [s \in StreamIds |-> "unused"]
    /\ videoWidth = 0
    /\ videoHeight = 0
    /\ pendingAnalysis = NoRequest
    /\ pendingReads = {}
    /\ uncaught = FALSE
    /\ stopCalls = 0
    /\ logCalls = 0
    /\ timesAdded = 0
    /\ resetPhase = "no"
    /\ dayLog = [d \in Days |-> 0]
    /\ runSum = 0

----------------------------------------------------------------------------
(* The persistence effects: each runs after a render in which its          *)
(* dependency changed.                                                     *)

(* localStorage.setItem and localStorage.getItem throwing *)
setItemThrows == storage # "ok"
getItemThrows == storage = "denied"

(* a ledger effect that never writes *)
LedgerEffectSkipped(newConsumed) == calorieLog' = calorieLog

LedgerEffect(newConsumed) ==
    calorieLog' = IF (newConsumed # consumedCalories \/ consumedKind' # consumedKind)
                     /\ ~setItemThrows
                  THEN StringifyValue(getTodayKey, newConsumed, consumedKind')
                  ELSE calorieLog

(* the ledger effect runs and its setItem throws: nothing catches it *)
LedgerEffectThrows(newConsumed) ==
    /\ newConsumed # consumedCalories \/ consumedKind' # consumedKind
    /\ setItemThrows

(* the goal effect never running *)
GoalEffectSkipped(newStr) == storedGoal' = storedGoal

(* the effect on [dailyCalorieGoalStr]: setItem('dailyCalorieGoal', str) *)
GoalEffect(newStr) ==
    storedGoal' = IF newStr # dailyCalorieGoalStr /\ ~setItemThrows
                  THEN GoalItem(newStr) ELSE storedGoal

GoalEffectThrows(newStr) == newStr # dailyCalorieGoalStr /\ setItemThrows

(* groups of variables an action leaves alone *)
themeVars == <<darkMode, darkModeItem>>
ledgerVars == <<today, calorieLog, storedGoal, dailyCalorieGoalStr, consumedCalories,
                consumedKind, resetPhase, dayLog, runSum>>
cameraVars == <<cameraActive, srcObject, streams, videoWidth, videoHeight>>
analysisVars == <<isAnalyzing, analysis, pendingAnalysis, logCalls, timesAdded>>
coachVars == <<exercise, journeyFrom, journeyTo, workoutPlan, journeyPlan,
               selectedExercise, isPlanning, isCalculatingJourney,
               isFetchingExercise, pendingCalls, exerciseCalls>>

(* analysis.items.map(...) in the preview's meal card throws when the      *)
(* analysis held has no items array                                        *)
renderThrows(an) == an.present /\ ~an.hasItems

(* the <video> element leaves the page: the ref is null again *)
Unmounted ==
    /\ srcObject' = 0
    /\ videoWidth' = 0
    /\ videoHeight' = 0

(* history: the analysis held is dropped or replaced *)
NewAnalysis ==
    /\ logCalls' = 0
    /\ timesAdded' = 0

----------------------------------------------------------------------------
(* reset(), and the tab buttons and Reset buttons that call it *)

(* a reset() without setMealLogged(false) *)
ResetBodyFlagKept ==
    /\ image' = NoImage
    /\ analysis' = NoAnalysis
    /\ error' = NoError
    /\ cameraActive' = FALSE
    /\ mealLogged' = mealLogged
    /\ Unmounted
    /\ NewAnalysis
    /\ workoutPlan' = NoResult
    /\ journeyPlan' = NoResult
    /\ exercise' = <<>>
    /\ journeyFrom' = <<>>
    /\ journeyTo' = <<>>
    /\ UNCHANGED <<storage, themeVars, selectedExercise, isPlanning, isCalculatingJourney,
                   isFetchingExercise, pendingCalls, exerciseCalls>>
    /\ stopCalls' = 0

(* a reset() without setWorkoutPlan(null) *)
ResetBodyPlanKept ==
    /\ image' = NoImage
    /\ analysis' = NoAnalysis
    /\ error' = NoError
    /\ cameraActive' = FALSE
    /\ mealLogged' = FALSE
    /\ Unmounted
    /\ NewAnalysis
    /\ workoutPlan' = workoutPlan
    /\ journeyPlan' = NoResult
    /\ exercise' = <<>>
    /\ journeyFrom' = <<>>
    /\ journeyTo' = <<>>
    /\ UNCHANGED <<storage, themeVars, selectedExercise, isPlanning, isCalculatingJourney,
                   isFetchingExercise, pendingCalls, exerciseCalls>>
    /\ stopCalls' = 0

(* reset() *)
ResetBody ==
    /\ image' = NoImage
    /\ analysis' = NoAnalysis
    /\ error' = NoError
    /\ cameraActive' = FALSE
    /\ mealLogged' = FALSE
    /\ Unmounted
    /\ NewAnalysis
    /\ workoutPlan' = NoResult
    /\ journeyPlan' = NoResult
    /\ exercise' = <<>>
    /\ journeyFrom' = <<>>
    /\ journeyTo' = <<>>
    /\ UNCHANGED <<storage, themeVars, selectedExercise, isPlanning, isCalculatingJourney,
                   isFetchingExercise, pendingCalls, exerciseCalls>>
    /\ stopCalls' = 0

(* a tab button: setActiveTab(t); reset() *)
selectTab ==
    \E t \in Tabs :
        /\ activeTab' = t
        /\ ResetBody
        /\ UNCHANGED <<ledgerVars, streams, isAnalyzing, pendingAnalysis,
                       pendingReads, uncaught>>

(* the header's Reset (shown while an image is held) and Analyze Another   *)
(* Meal (shown under an analysis in the preview)                           *)
reset ==
    /\ image # NoImage \/ workoutPlan.present \/ journeyPlan.present
    /\ ResetBody
    /\ UNCHANGED <<ledgerVars, activeTab, streams, isAnalyzing, pendingAnalysis,
                   pendingReads, uncaught>>

(* the header's theme button: setDarkMode(d => !d), then the effect on     *)
(* [darkMode]                                                              *)
setDarkMode ==
    /\ darkMode' = ~darkMode
    /\ darkModeItem' = IF setItemThrows THEN darkModeItem ELSE String(darkMode')
    /\ uncaught' = (uncaught \/ setItemThrows)
    /\ stopCalls' = 0
    /\ UNCHANGED <<storage, coachVars, ledgerVars, cameraVars, analysisVars,
                   activeTab, image, error, mealLogged, pendingReads>>

----------------------------------------------------------------------------
(* The ledger *)

(* Reset Day: setConsumedCalories(0) *)
resetDay ==
    /\ InitialScreen
    /\ consumedCalories' = 0
    /\ consumedKind' = "integer"
    /\ LedgerEffect(0)
    /\ uncaught' = (uncaught \/ LedgerEffectThrows(0))
    /\ dayLog' = [dayLog EXCEPT ![today] = 0]
    /\ runSum' = 0
    /\ resetPhase' = "reset"
    /\ UNCHANGED <<storage, themeVars, coachVars>>
    /\ stopCalls' = 0
    /\ UNCHANGED <<today, storedGoal, dailyCalorieGoalStr, activeTab, image, error,
                   mealLogged, cameraVars, analysisVars, pendingReads>>

(* the goal input: setDailyCalorieGoalStr(e.target.value) *)
setDailyCalorieGoalStr(choices) ==
    \E str \in choices :
        /\ InitialScreen
        /\ dailyCalorieGoalStr' = str
        /\ GoalEffect(str)
        /\ uncaught' = (uncaught \/ GoalEffectThrows(str))
        /\ UNCHANGED <<storage, themeVars, coachVars>>
        /\ stopCalls' = 0
        /\ UNCHANGED <<today, calorieLog, consumedCalories, consumedKind, resetPhase,
                       dayLog, runSum, activeTab, image, error, mealLogged,
                       cameraVars, analysisVars, pendingReads>>

(* the condition without its mealLogged half *)
logMealAppliesUnguarded(an, logged) == an.present

(* handleLogMeal's condition *)
logMealApplies(an, logged) == an.present /\ ~logged

(* an updater that stores the amount instead of adding it *)
addCaloriesOverwriting(prev, amount) == amount

(* prev => prev + analysis.totalCalories *)
addCalories(prev, amount) == prev + amount

(* prev + analysis.totalCalories on the kinds: a string operand makes the  *)
(* sum a string, NaN or undefined make it NaN, null counts as 0            *)
addKind(pk, ak) ==
    IF pk = "string" \/ ak = "string" THEN "string"
    ELSE IF {pk, ak} \cap {"NaN", "undefined"} # {} THEN "NaN"
    ELSE IF (pk = "fraction") # (ak = "fraction") THEN "fraction"
    ELSE "integer"

(* the integer part of prev + analysis.totalCalories *)
addValue(prev, pk, amount, ak) ==
    IF ~IsNumberKind(addKind(pk, ak)) THEN 0
    ELSE addCalories(prev, amount)
         + (IF pk = "fraction" /\ ak = "fraction" THEN 1 ELSE 0)

(* the Log Meal button; the meal card it sits in is shown in the preview   *)
(* whenever an analysis is held                                            *)
handleLogMeal ==
    /\ PreviewScreen
    /\ analysis.present
    /\ LET applies == logMealApplies(analysis, mealLogged)
           total == IF applies
                    THEN addValue(consumedCalories, consumedKind,
                                  analysis.totalCalories, analysis.totalKind)
                    ELSE consumedCalories
           logged == IF applies THEN analysis.totalCalories ELSE 0
       IN /\ total <= MaxConsumed
          /\ total >= 0 - MaxConsumed
          /\ runSum + logged <= MaxConsumed
          /\ runSum + logged >= 0 - MaxConsumed
          /\ dayLog[today] + logged <= MaxConsumed
          /\ dayLog[today] + logged >= 0 - MaxConsumed
          /\ consumedCalories' = total
          /\ consumedKind' = IF applies
                             THEN addKind(consumedKind, analysis.totalKind)
                             ELSE consumedKind
          /\ mealLogged' = (applies \/ mealLogged)
          /\ LedgerEffect(total)
          /\ uncaught' = (uncaught \/ LedgerEffectThrows(total))
          /\ dayLog' = IF applies
                       THEN [dayLog EXCEPT ![today] = @ + analysis.totalCalories]
                       ELSE dayLog
          /\ runSum' = IF applies THEN runSum + analysis.totalCalories ELSE runSum
          /\ timesAdded' = IF applies THEN timesAdded + 1 ELSE timesAdded
          /\ resetPhase' = IF ~applies THEN resetPhase
                           ELSE IF resetPhase = "reset" THEN "logged" ELSE "no"
    /\ logCalls' = IF logCalls < 2 THEN logCalls + 1 ELSE 2
    /\ UNCHANGED <<storage, themeVars, coachVars>>
    /\ stopCalls' = 0
    /\ UNCHANGED <<today, storedGoal, dailyCalorieGoalStr, activeTab, image, error,
                   cameraVars, isAnalyzing, analysis, pendingAnalysis, pendingReads>>

----------------------------------------------------------------------------
(* The camera *)

(* the id of the next getUserMedia call of this page *)
NextStream == CHOOSE s \in DOMAIN streams :
                  /\ streams[s] = "unused"
                  /\ \A r \in DOMAIN streams : r < s => streams[r] # "unused"

(* Open Camera, up to the await *)
startCamera ==
    /\ InitialScreen
    /\ \E s \in DOMAIN streams : streams[s] = "unused"
    /\ error' = NoError
    /\ cameraActive' = TRUE
    /\ streams' = [streams EXCEPT ![NextStream] = "pending"]
    /\ Unmounted
    /\ UNCHANGED <<storage, themeVars, coachVars>>
    /\ stopCalls' = 0
    /\ UNCHANGED <<ledgerVars, activeTab, image, mealLogged, analysisVars,
                   pendingReads, uncaught>>

(* getUserMedia resolves: if (videoRef.current) videoRef.current.srcObject = stream *)
startCameraResolved ==
    \E s \in DOMAIN streams, dim \in FrameDims :
        /\ streams[s] = "pending"
        /\ streams' = [streams EXCEPT ![s] = "live"]
        /\ srcObject' = IF videoMounted THEN s ELSE srcObject
        /\ videoWidth' = IF videoMounted THEN dim[1] ELSE videoWidth
        /\ videoHeight' = IF videoMounted THEN dim[2] ELSE videoHeight
        /\ UNCHANGED <<storage, themeVars, coachVars>>
        /\ stopCalls' = 0
        /\ UNCHANGED <<ledgerVars, activeTab, image, error, cameraActive,
                       mealLogged, analysisVars, pendingReads, uncaught>>

(* a catch block without setCameraActive(false) *)
startCameraFailedStillActive ==
    \E s \in DOMAIN streams :
        /\ streams[s] = "pending"
        /\ streams' = [streams EXCEPT ![s] = "ended"]
        /\ error' = CameraError
        /\ UNCHANGED <<storage, themeVars, coachVars>>
        /\ stopCalls' = 0
        /\ UNCHANGED <<ledgerVars, activeTab, image, mealLogged, cameraActive,
                       srcObject, videoWidth, videoHeight,
                       analysisVars, pendingReads, uncaught>>

(* getUserMedia rejects: the catch block *)
startCameraFailed ==
    \E s \in DOMAIN streams :
        /\ streams[s] = "pending"
        /\ streams' = [streams EXCEPT ![s] = "ended"]
        /\ error' = CameraError
        /\ cameraActive' = FALSE
        /\ Unmounted
        /\ UNCHANGED <<storage, themeVars, coachVars>>
        /\ stopCalls' = 0
        /\ UNCHANGED <<ledgerVars, activeTab, image, mealLogged,
                       analysisVars, pendingReads, uncaught>>

(* a stopCamera that stops no track *)
tracksLeftRunning(strs, src) == strs

(* getTracks().forEach(t => t.stop()) on the attached stream, if any *)
stoppedTracks(strs, src) == IF src # 0 THEN [strs EXCEPT ![src] = "ended"] ELSE strs

(* videoRef.current?.srcObject guards every dereference: with no element   *)
(* or no stream attached nothing is touched and nothing is thrown          *)
stopCameraThrows(src) == FALSE

StopCameraBody ==
    /\ streams' = stoppedTracks(streams, srcObject)
    /\ cameraActive' = FALSE
    /\ Unmounted

(* stopCamera(): the camera screen's cancel button.  The function itself   *)
(* has no precondition; a second call right after the first is taken too.  *)
stopCamera ==
    /\ CameraScreen \/ stopCalls = 1
    /\ StopCameraBody
    /\ uncaught' = (uncaught \/ stopCameraThrows(srcObject))
    /\ UNCHANGED <<storage, themeVars, coachVars>>
    /\ stopCalls' = stopCalls + 1
    /\ UNCHANGED <<ledgerVars, activeTab, image, error, mealLogged,
                   analysisVars, pendingReads>>

(* a shutter handler without its stopCamera() call *)
captureImageCameraKept ==
    /\ CameraScreen
    /\ LET size == captureSize(videoWidth, videoHeight)
       IN image' = FrameImage(srcObject, size[1], size[2])
    /\ UNCHANGED <<storage, themeVars, coachVars>>
    /\ stopCalls' = 0
    /\ UNCHANGED <<ledgerVars, activeTab, error, mealLogged, analysisVars,
                   pendingReads, cameraVars, uncaught>>

(* the shutter button; the preview that follows renders the analysis held *)
captureImage ==
    /\ CameraScreen
    /\ LET size == captureSize(videoWidth, videoHeight)
       IN image' = FrameImage(srcObject, size[1], size[2])
    /\ StopCameraBody
    /\ uncaught' = (uncaught \/ stopCameraThrows(srcObject) \/ renderThrows(analysis))
    /\ UNCHANGED <<storage, themeVars, coachVars>>
    /\ stopCalls' = 0
    /\ UNCHANGED <<ledgerVars, activeTab, error, mealLogged, analysisVars,
                   pendingReads>>

----------------------------------------------------------------------------
(* File upload *)

(* Upload Photo: reader.readAsDataURL(file) *)
handleFileUpload(files) ==
    \E f \in files :
        /\ InitialScreen
        /\ f \notin pendingReads
        /\ pendingReads' = pendingReads \cup {f}
        /\ UNCHANGED <<storage, themeVars, coachVars>>
        /\ stopCalls' = 0
        /\ UNCHANGED <<ledgerVars, cameraVars, activeTab, image, error,
                       mealLogged, analysisVars, uncaught>>

(* an onloadend callback without its setMealLogged(false) *)
readerLoadEndFlagKept ==
    \E f \in pendingReads, ok \in BOOLEAN :
        /\ pendingReads' = pendingReads \ {f}
        /\ image' = IF ok THEN FileImage(f) ELSE NoImage
        /\ analysis' = NoAnalysis
        /\ mealLogged' = mealLogged
        /\ NewAnalysis
        /\ UNCHANGED <<storage, themeVars, coachVars>>
        /\ stopCalls' = 0
        /\ UNCHANGED <<ledgerVars, cameraVars, activeTab, error,
                       isAnalyzing, pendingAnalysis, uncaught>>

(* reader.onloadend: reader.result is the data URI, or null after a read   *)
(* error                                                                   *)
readerLoadEnd ==
    \E f \in pendingReads, ok \in BOOLEAN :
        /\ pendingReads' = pendingReads \ {f}
        /\ image' = IF ok THEN FileImage(f) ELSE NoImage
        /\ analysis' = NoAnalysis
        /\ mealLogged' = FALSE
        /\ NewAnalysis
        /\ UNCHANGED <<storage, themeVars, coachVars>>
        /\ stopCalls' = 0
        /\ UNCHANGED <<ledgerVars, cameraVars, activeTab, error,
                       isAnalyzing, pendingAnalysis, uncaught>>

----------------------------------------------------------------------------
(* Analysis *)

(* Analyze Calories, up to the await *)
handleAnalyze ==
    /\ PreviewScreen
    /\ ~analysis.present
    /\ ~isAnalyzing
    /\ image # NoImage
    /\ isAnalyzing' = TRUE
    /\ error' = NoError
    /\ mealLogged' = FALSE
    /\ pendingAnalysis' = [sent |-> TRUE, of |-> image]
    /\ UNCHANGED <<storage, themeVars, coachVars>>
    /\ stopCalls' = 0
    /\ UNCHANGED <<ledgerVars, cameraVars, activeTab, image, analysis, logCalls,
                   timesAdded, pendingReads, uncaught>>

(* What the model service answers.  text is "json" (a JSON text of an     *)
(* object), "null" (the JSON text null), "empty" (no text) or "notjson";   *)
(* the object has an items array or not and a totalCalories of some kind.  *)
Payload(text, total, kind, items) ==
    [text |-> text, totalCalories |-> total, totalKind |-> kind, hasItems |-> items]

WellFormed(total) == Payload("json", total, "integer", TRUE)

(* analyzeFoodImage's last step: JSON.parse(response.text || "{}"), with   *)
(* a parse error thrown on as "Failed to analyze image"                    *)
analyzeFoodImage(payload) ==
    CASE payload.text = "notjson" ->
           [thrown |-> TRUE, value |-> "none", totalCalories |-> 0,
            totalKind |-> "undefined", hasItems |-> FALSE]
      [] payload.text = "empty" ->
           [thrown |-> FALSE, value |-> "object", totalCalories |-> 0,
            totalKind |-> "undefined", hasItems |-> FALSE]
      [] payload.text = "null" ->
           [thrown |-> FALSE, value |-> "null", totalCalories |-> 0,
            totalKind |-> "undefined", hasItems |-> FALSE]
      [] OTHER ->
           [thrown |-> FALSE, value |-> "object",
            totalCalories |-> IF IsNumberKind(payload.totalKind)
                              THEN payload.totalCalories ELSE 0,
            totalKind |-> payload.totalKind, hasItems |-> payload.hasItems]

(* setAnalysis(result), then finally; the preview renders the result *)
AnalyzeResolvedBody(result) ==
    /\ analysis' = IF result.value = "null" THEN NoAnalysis
                   ELSE [present |-> TRUE, totalCalories |-> result.totalCalories,
                         totalKind |-> result.totalKind,
                         hasItems |-> result.hasItems, of |-> pendingAnalysis.of]
    /\ isAnalyzing' = FALSE
    /\ pendingAnalysis' = NoRequest
    /\ NewAnalysis
    /\ UNCHANGED <<storage, themeVars, coachVars>>
    /\ stopCalls' = 0
    /\ uncaught' = (uncaught \/ (PreviewScreen /\ renderThrows(analysis')))
    /\ UNCHANGED <<ledgerVars, cameraVars, activeTab, image, error,
                   mealLogged, pendingReads>>

(* the catch block without its finally: the loading flag stays set *)
AnalyzeFailedStillLoading ==
    /\ error' = AnalysisError
    /\ isAnalyzing' = isAnalyzing
    /\ pendingAnalysis' = NoRequest
    /\ UNCHANGED <<storage, themeVars, coachVars>>
    /\ stopCalls' = 0
    /\ UNCHANGED <<ledgerVars, cameraVars, activeTab, image, analysis, logCalls,
                   timesAdded, mealLogged, pendingReads, uncaught>>

(* the catch block, then finally *)
AnalyzeFailedBody ==
    /\ error' = AnalysisError
    /\ isAnalyzing' = FALSE
    /\ pendingAnalysis' = NoRequest
    /\ UNCHANGED <<storage, themeVars, coachVars>>
    /\ stopCalls' = 0
    /\ UNCHANGED <<ledgerVars, cameraVars, activeTab, image, analysis, logCalls,
                   timesAdded, mealLogged, pendingReads, uncaught>>

(* analyzeFoodImage resolves with a well-formed result *)
handleAnalyzeResolved ==
    \E total \in Amounts :
        /\ pendingAnalysis.sent
        /\ AnalyzeResolvedBody(analyzeFoodImage(WellFormed(total)))

(* analyzeFoodImage rejects: the request itself failed *)
handleAnalyzeFailed ==
    /\ pendingAnalysis.sent
    /\ AnalyzeFailedBody

(* analyzeFoodImage settles on whatever the service answered *)
handleAnalyzeResponse(payloads) ==
    \E payload \in payloads :
        /\ pendingAnalysis.sent
        /\ IF analyzeFoodImage(payload).thrown
           THEN AnalyzeFailedBody
           ELSE AnalyzeResolvedBody(analyzeFoodImage(payload))

----------------------------------------------------------------------------
(* The workout and journey tabs *)

(* what these handlers never touch *)
mealVars == <<ledgerVars, cameraVars, analysisVars, image, mealLogged, pendingReads,
              storage, themeVars, uncaught>>

ExerciseTexts == {<<>>, <<"r", "u", "n">>}
PlaceTexts == {<<>>, <<"a">>}

(* the exercise input of the workout form *)
setExercise ==
    \E text \in ExerciseTexts :
        /\ activeTab = "workout"
        /\ ~workoutPlan.present
        /\ exercise' = text
        /\ stopCalls' = 0
        /\ UNCHANGED <<mealVars, activeTab, error, journeyFrom, journeyTo, workoutPlan,
                       journeyPlan, selectedExercise, exerciseCalls, isPlanning,
                       isCalculatingJourney, isFetchingExercise, pendingCalls>>

(* the starting-point input of the journey form *)
setJourneyFrom ==
    \E text \in PlaceTexts :
        /\ activeTab = "journey"
        /\ ~journeyPlan.present
        /\ journeyFrom' = text
        /\ stopCalls' = 0
        /\ UNCHANGED <<mealVars, activeTab, error, exercise, journeyTo, workoutPlan,
                       journeyPlan, selectedExercise, exerciseCalls, isPlanning,
                       isCalculatingJourney, isFetchingExercise, pendingCalls>>

(* the destination input of the journey form *)
setJourneyTo ==
    \E text \in PlaceTexts :
        /\ activeTab = "journey"
        /\ ~journeyPlan.present
        /\ journeyTo' = text
        /\ stopCalls' = 0
        /\ UNCHANGED <<mealVars, activeTab, error, exercise, journeyFrom, workoutPlan,
                       journeyPlan, selectedExercise, exerciseCalls, isPlanning,
                       isCalculatingJourney, isFetchingExercise, pendingCalls>>

(* Generate Plan (disabled while isPlanning or without an exercise), up to *)
(* the await                                                               *)
handleGenerateWorkout ==
    /\ activeTab = "workout"
    /\ ~workoutPlan.present
    /\ ~isPlanning
    /\ exercise # <<>>
    /\ isPlanning' = TRUE
    /\ error' = NoError
    /\ pendingCalls' = pendingCalls \cup {"workout"}
    /\ stopCalls' = 0
    /\ UNCHANGED <<mealVars, activeTab, exercise, journeyFrom, journeyTo, workoutPlan,
                   journeyPlan, selectedExercise, exerciseCalls, isCalculatingJourney,
                   isFetchingExercise>>


(* generateWorkoutPlan resolves: setWorkoutPlan(result), then finally *)
handleGenerateWorkoutResolved ==
    /\ "workout" \in pendingCalls
    /\ workoutPlan' = Result(TRUE)
    /\ isPlanning' = FALSE
    /\ pendingCalls' = pendingCalls \ {"workout"}
    /\ stopCalls' = 0
    /\ UNCHANGED <<mealVars, activeTab, error, exercise, journeyFrom, journeyTo,
                   journeyPlan, selectedExercise, exerciseCalls, isCalculatingJourney,
                   isFetchingExercise>>

(* a catch block that sends the request again instead of giving up *)
handleGenerateWorkoutRetried ==
    /\ "workout" \in pendingCalls
    /\ error' = WorkoutError
    /\ isPlanning' = TRUE
    /\ pendingCalls' = pendingCalls
    /\ stopCalls' = 0
    /\ UNCHANGED <<mealVars, activeTab, exercise, journeyFrom, journeyTo, workoutPlan,
                   journeyPlan, selectedExercise, exerciseCalls, isCalculatingJourney,
                   isFetchingExercise>>

(* generateWorkoutPlan rejects: the catch block, then finally *)
handleGenerateWorkoutFailed ==
    /\ "workout" \in pendingCalls
    /\ error' = WorkoutError
    /\ isPlanning' = FALSE
    /\ pendingCalls' = pendingCalls \ {"workout"}
    /\ stopCalls' = 0
    /\ UNCHANGED <<mealVars, activeTab, exercise, journeyFrom, journeyTo, workoutPlan,
                   journeyPlan, selectedExercise, exerciseCalls, isCalculatingJourney,
                   isFetchingExercise>>

(* Calculate (disabled while isCalculatingJourney or without both ends),   *)
(* up to the await                                                         *)
handleCalculateJourney ==
    /\ activeTab = "journey"
    /\ ~journeyPlan.present
    /\ ~isCalculatingJourney
    /\ journeyFrom # <<>>
    /\ journeyTo # <<>>
    /\ isCalculatingJourney' = TRUE
    /\ error' = NoError
    /\ pendingCalls' = pendingCalls \cup {"journey"}
    /\ stopCalls' = 0
    /\ UNCHANGED <<mealVars, activeTab, exercise, journeyFrom, journeyTo, workoutPlan,
                   journeyPlan, selectedExercise, exerciseCalls, isPlanning, isFetchingExercise>>

(* calculateJourney's last step: JSON.parse(response.text || "{}"), with a *)
(* parse error thrown on as "Failed to calculate journey"                  *)
calculateJourney(payload) ==
    CASE payload.text = "notjson" -> [thrown |-> TRUE, plan |-> NoResult]
      [] payload.text = "empty" -> [thrown |-> FALSE, plan |-> Result(FALSE)]
      [] payload.text = "null" -> [thrown |-> FALSE, plan |-> NoResult]
      [] OTHER -> [thrown |-> FALSE, plan |-> Result(payload.hasItems)]

(* the catch block, then finally *)
CalculateJourneyFailedBody ==
    /\ error' = JourneyError
    /\ isCalculatingJourney' = FALSE
    /\ pendingCalls' = pendingCalls \ {"journey"}
    /\ stopCalls' = 0
    /\ UNCHANGED <<mealVars, activeTab, exercise, journeyFrom, journeyTo, workoutPlan,
                   journeyPlan, selectedExercise, exerciseCalls, isPlanning, isFetchingExercise>>

(* calculateJourney settles on whatever the service answered *)
handleCalculateJourneyResponse(payloads) ==
    \E payload \in payloads :
        /\ "journey" \in pendingCalls
        /\ IF calculateJourney(payload).thrown
           THEN CalculateJourneyFailedBody
           ELSE /\ journeyPlan' = calculateJourney(payload).plan
                /\ isCalculatingJourney' = FALSE
                /\ pendingCalls' = pendingCalls \ {"journey"}
                /\ stopCalls' = 0
                /\ UNCHANGED <<mealVars, activeTab, error, exercise, journeyFrom,
                               journeyTo, workoutPlan, selectedExercise, exerciseCalls, isPlanning,
                               isFetchingExercise>>

(* calculateJourney rejects: the request itself failed *)
handleCalculateJourneyFailed ==
    /\ "journey" \in pendingCalls
    /\ CalculateJourneyFailedBody

(* the names a plan may show: an exercise, a rest day in two spellings, a  *)
(* name with 'rest' inside it, and no name                                 *)
ActivityNames ==
    {<<"S", "q", "u", "a", "t">>, <<"R", "e", "s", "t">>, <<"N", "O", "N", "E">>,
     <<"F", "o", "r", "e", "s", "t">>, <<>>}

UpperCase == <<"A", "B", "C", "D", "E", "F", "G", "H", "I", "J", "K", "L", "M",
               "N", "O", "P", "Q", "R", "S", "T", "U", "V", "W", "X", "Y", "Z">>
LowerCase == <<"a", "b", "c", "d", "e", "f", "g", "h", "i", "j", "k", "l", "m",
               "n", "o", "p", "q", "r", "s", "t", "u", "v", "w", "x", "y", "z">>

(* the lower-case letter of each upper-case letter *)
LowerOf ==
    [c \in {UpperCase[k] : k \in 1..Len(UpperCase)} |->
        LowerCase[CHOOSE k \in 1..Len(UpperCase) : UpperCase[k] = c]]

(* String.prototype.toLowerCase *)
toLowerCase(str) ==
    [i \in 1..Len(str) |-> IF str[i] \in DOMAIN LowerOf THEN LowerOf[str[i]] ELSE str[i]]

(* String.prototype.includes *)
includes(str, part) ==
    \E i \in 0..(Len(str) - Len(part)) :
        \A k \in 1..Len(part) : str[i + k] = part[k]

(* the test without its toLowerCase() *)
exerciseSkippedCaseSensitive(name) ==
    \/ Len(name) = 0
    \/ includes(name, <<"r", "e", "s", "t">>)
    \/ includes(name, <<"n", "o", "n", "e">>)

(* !name || name.toLowerCase().includes('rest') ||                         *)
(* name.toLowerCase().includes('none')                                     *)
exerciseSkipped(name) ==
    \/ Len(name) = 0
    \/ includes(toLowerCase(name), <<"r", "e", "s", "t">>)
    \/ includes(toLowerCase(name), <<"n", "o", "n", "e">>)

(* the getExerciseInfo calls in flight *)
callsInFlight ==
    exerciseCalls["text"] + exerciseCalls["image"] + exerciseCalls["imageDefault"]

(* an exercise name in the plan shown, up to the await.  The dialog that   *)
(* opens lies over the plan but disables nothing under it: the button      *)
(* clicked keeps the focus and answers to Enter and Space.                 *)
handleExerciseClickOn(name) ==
    /\ activeTab = "workout"
    /\ workoutPlan.present
    /\ IF exerciseSkipped(name)
       THEN UNCHANGED vars
       ELSE /\ callsInFlight < MaxCalls
            /\ isFetchingExercise' = TRUE
            /\ exerciseCalls' = [exerciseCalls EXCEPT !["text"] = @ + 1]
            /\ stopCalls' = 0
            /\ UNCHANGED <<mealVars, activeTab, error, exercise, journeyFrom, journeyTo,
                           workoutPlan, journeyPlan, selectedExercise, isPlanning,
                           isCalculatingJourney, pendingCalls>>

handleExerciseClick == \E name \in ActivityNames : handleExerciseClickOn(name)

(* getExerciseInfo's text request resolves: the explanation is the text or *)
(* the default, and the image request is sent                              *)
getExerciseInfoText ==
    \E text \in {"given", "empty"} :
        /\ exerciseCalls["text"] > 0
        /\ exerciseCalls' =
              [exerciseCalls EXCEPT
                  !["text"] = @ - 1,
                  ![IF text = "empty" THEN "imageDefault" ELSE "image"] = @ + 1]
        /\ stopCalls' = 0
        /\ UNCHANGED <<mealVars, activeTab, error, exercise, journeyFrom, journeyTo,
                       workoutPlan, journeyPlan, selectedExercise, isPlanning,
                       isCalculatingJourney, isFetchingExercise, pendingCalls>>

(* what the image request of getExerciseInfo ends in: a response with an   *)
(* inline image, a response without one, or a failure, which is caught     *)
ImageOutcomes == {"image", "noimage", "failed"}

(* a getExerciseInfo whose image request is not in a try block: its       *)
(* failure rejects the call, and handleExerciseClick's catch block runs    *)
getExerciseInfoImageThrown(phase, outcome) ==
    /\ exerciseCalls[phase] > 0
    /\ IF outcome = "failed"
       THEN error' = ExerciseError /\ selectedExercise' = selectedExercise
       ELSE /\ error' = error
            /\ selectedExercise' =
                   ExerciseInfo(IF phase = "imageDefault" THEN "default" ELSE "text",
                                outcome = "image")
    /\ isFetchingExercise' = FALSE
    /\ exerciseCalls' = [exerciseCalls EXCEPT ![phase] = @ - 1]
    /\ stopCalls' = 0
    /\ UNCHANGED <<mealVars, activeTab, exercise, journeyFrom, journeyTo,
                   workoutPlan, journeyPlan, isPlanning, isCalculatingJourney,
                   pendingCalls>>

(* getExerciseInfo returns {name, explanation, imageUrl} after its image   *)
(* request has settled, imageUrl being set only from an inline image:      *)
(* setSelectedExercise(info), then finally                                 *)
getExerciseInfoReturned(phase, outcome) ==
    /\ exerciseCalls[phase] > 0
    /\ selectedExercise' =
           ExerciseInfo(IF phase = "imageDefault" THEN "default" ELSE "text",
                        outcome = "image")
    /\ isFetchingExercise' = FALSE
    /\ exerciseCalls' = [exerciseCalls EXCEPT ![phase] = @ - 1]
    /\ stopCalls' = 0
    /\ UNCHANGED <<mealVars, activeTab, error, exercise, journeyFrom, journeyTo,
                   workoutPlan, journeyPlan, isPlanning, isCalculatingJourney,
                   pendingCalls>>

handleExerciseClickResolved ==
    \E phase \in {"image", "imageDefault"}, outcome \in ImageOutcomes :
        getExerciseInfoReturned(phase, outcome)

(* getExerciseInfo rejects, its text request having failed: the catch      *)
(* block, then finally                                                     *)
handleExerciseClickFailed ==
    /\ exerciseCalls["text"] > 0
    /\ error' = ExerciseError
    /\ isFetchingExercise' = FALSE
    /\ exerciseCalls' = [exerciseCalls EXCEPT !["text"] = @ - 1]
    /\ stopCalls' = 0
    /\ UNCHANGED <<mealVars, activeTab, exercise, journeyFrom, journeyTo,
                   workoutPlan, journeyPlan, selectedExercise, isPlanning,
                   isCalculatingJourney, pendingCalls>>

(* The handlers called whatever their inputs hold.  The Analyze button is  *)
(* rendered only over an image, and the Generate and Calculate buttons are *)
(* disabled while an input is empty, so the first branch of each is the    *)
(* handler's own guard against a call the page does not offer.             *)

ExerciseMissing == "Please enter an exercise."
PlacesMissing == "Please enter both starting point and destination."

(* if (!image) return; *)
handleAnalyzeCall ==
    /\ activeTab = "calorie"
    /\ ~cameraActive
    /\ IF image = NoImage THEN UNCHANGED vars ELSE handleAnalyze

(* if (!exercise) { setError(...); return; } *)
handleGenerateWorkoutCall ==
    /\ activeTab = "workout"
    /\ IF exercise = <<>>
       THEN /\ error' = ExerciseMissing
            /\ stopCalls' = 0
            /\ UNCHANGED <<mealVars, coachVars, activeTab>>
       ELSE handleGenerateWorkout

(* if (!journeyFrom || !journeyTo) { setError(...); return; } *)
handleCalculateJourneyCall ==
    /\ activeTab = "journey"
    /\ IF journeyFrom = <<>> \/ journeyTo = <<>>
       THEN /\ error' = PlacesMissing
            /\ stopCalls' = 0
            /\ UNCHANGED <<mealVars, coachVars, activeTab>>
       ELSE handleCalculateJourney

(* the dialog's close buttons and backdrop: setSelectedExercise(null) *)
closeExercise ==
    /\ selectedExercise.present
    /\ selectedExercise' = NoInfo
    /\ stopCalls' = 0
    /\ UNCHANGED <<mealVars, activeTab, error, exercise, journeyFrom, journeyTo,
                   workoutPlan, journeyPlan, isPlanning, isCalculatingJourney,
                   isFetchingExercise, pendingCalls, exerciseCalls>>

----------------------------------------------------------------------------
(* The environment *)

(* midnight passes while the page stays open *)
dayChange ==
    /\ today < MaxDay
    /\ today' = today + 1
    /\ dayLog' = Forget(dayLog, today + 1, calorieLog)
    /\ resetPhase' = "no"
    /\ UNCHANGED <<storage, themeVars, coachVars>>
    /\ stopCalls' = 0
    /\ UNCHANGED <<calorieLog, storedGoal, dailyCalorieGoalStr, consumedCalories,
                   consumedKind, runSum, activeTab, image, error, mealLogged, cameraVars,
                   analysisVars, pendingReads, uncaught>>

(* the page is loaded again: every useState initialiser runs, the effects  *)
(* run once after the first render; the old page's streams, readers and    *)
(* requests are gone with it.  Only loadConsumedCalories catches what      *)
(* localStorage throws: a getItem that throws in the goal initialiser      *)
(* aborts the first render, a setItem that throws in an effect takes the   *)
(* mounted page down.                                                      *)
restart ==
    LET loaded == IF getItemThrows THEN 0
                  ELSE loadConsumedCalories(calorieLog, getTodayKey)
        loadedKind == IF getItemThrows THEN "integer"
                      ELSE loadConsumedKind(calorieLog, getTodayKey)
        goalStr == IF getItemThrows THEN DefaultGoalStr ELSE loadGoalStr(storedGoal)
    IN /\ consumedCalories' = loaded
       /\ consumedKind' = loadedKind
       /\ dailyCalorieGoalStr' = goalStr
       /\ calorieLog' = IF setItemThrows THEN calorieLog
                        ELSE StringifyValue(getTodayKey, loaded, loadedKind)
       /\ storedGoal' = IF setItemThrows THEN storedGoal ELSE GoalItem(goalStr)
       /\ activeTab' = "calorie"
       /\ image' = NoImage
       /\ isAnalyzing' = FALSE
       /\ analysis' = NoAnalysis
       /\ error' = NoError
       /\ cameraActive' = FALSE
       /\ mealLogged' = FALSE
       /\ Unmounted
       /\ streams' = [s \in DOMAIN streams |-> "unused"]
       /\ pendingAnalysis' = NoRequest
       /\ pendingReads' = {}
       /\ uncaught' = setItemThrows
       /\ NewAnalysis
       /\ exercise' = <<>>
       /\ journeyFrom' = <<>>
       /\ journeyTo' = <<>>
       /\ workoutPlan' = NoResult
       /\ journeyPlan' = NoResult
       /\ selectedExercise' = NoInfo
       /\ isPlanning' = FALSE
       /\ isCalculatingJourney' = FALSE
       /\ isFetchingExercise' = FALSE
       /\ pendingCalls' = {}
       /\ exerciseCalls' = NoCalls
       /\ UNCHANGED storage
       /\ darkMode' = (~getItemThrows /\ loadDarkMode(darkModeItem))
       /\ darkModeItem' = IF setItemThrows THEN darkModeItem ELSE String(darkMode')
       /\ stopCalls' = 0
       /\ resetPhase' = "no"
       /\ dayLog' = Forget(dayLog, today, calorieLog')
       /\ runSum' = IF loaded = 0 THEN 0 ELSE runSum
       /\ UNCHANGED today

(* Log Meal, and the page dies after setConsumedCalories but before the    *)
(* persistence effect runs; the page is then loaded again.  What the click *)
(* changed was in memory only, so the new page starts from the storage the *)
(* click found.                                                            *)
logMealCrashed ==
    /\ PreviewScreen
    /\ logMealApplies(analysis, mealLogged)
    /\ restart

(* Reset Day, and the page dies before the persistence effect runs; the    *)
(* page is then loaded again                                               *)
resetDayCrashed ==
    /\ InitialScreen
    /\ restart

----------------------------------------------------------------------------

Next ==
    \/ selectTab
    \/ reset
    \/ resetDay
    \/ setDailyCalorieGoalStr(GoalStrs)
    \/ handleLogMeal
    \/ startCamera
    \/ startCameraResolved
    \/ startCameraFailed
    \/ stopCamera
    \/ captureImage
    \/ handleFileUpload(Files)
    \/ readerLoadEnd
    \/ handleAnalyze
    \/ handleAnalyzeResolved
    \/ handleAnalyzeFailed
    \/ dayChange
    \/ restart

Spec == Init /\ [][Next]_vars

----------------------------------------------------------------------------
(* captureImage on its own: the camera screen with a live stream attached, *)
(* for a range of native frame sizes                                       *)

ScaleDims == {1, 2, 480, 561, 720, 1023, 1024, 1025, 1080, 1122, 1920, 3000, 4032}

InitScale ==
    /\ today = 1
    /\ consumedCalories = 0
    /\ consumedKind = "integer"
    /\ dailyCalorieGoalStr = DefaultGoalStr
    /\ calorieLog = Stringify(1, 0)
    /\ storedGoal = GoalItem(DefaultGoalStr)
    /\ storage = "ok"
    /\ darkMode = loadDarkMode("absent")
    /\ darkModeItem = String(darkMode)
    /\ activeTab = "calorie"
    /\ image = NoImage
    /\ isAnalyzing = FALSE
    /\ analysis = NoAnalysis
    /\ error = NoError
    /\ cameraActive = TRUE
    /\ mealLogged = FALSE
    /\ IdleCoach
    /\ srcObject = 1
    /\ streams = [s \in StreamIds |-> IF s = 1 THEN "live" ELSE "unused"]
    /\ videoWidth \in ScaleDims
    /\ videoHeight \in ScaleDims
    /\ pendingAnalysis = NoRequest
    /\ pendingReads = {}
    /\ uncaught = FALSE
    /\ stopCalls = 0
    /\ logCalls = 0
    /\ timesAdded = 0
    /\ resetPhase = "no"
    /\ dayLog = [d \in Days |-> 0]
    /\ runSum = 0

NextScale == captureImage

SpecScale == InitScale /\ [][NextScale]_vars

----------------------------------------------------------------------------
(* The goal panel on its own: the initial screen for a range of goal texts *)
(* and of totals logged earlier on day 1                                   *)

CalcGoalStrs == {<<"2", "0", "0", "0">>, <<"2", "5", "0", "0">>, <<"0">>, <<>>,
                 <<"-", "5">>, <<"1", ".", "5">>, <<"1", "e", "3">>, <<"7">>}
CalcTotals == {0, 1, 6, 7, 8, 600, 900, 1500, 1999, 2000, 2001, 2200, 2500, 2501}

InitCalc ==
    /\ today = 1
    /\ consumedCalories \in CalcTotals
    /\ consumedKind = "integer"
    /\ dailyCalorieGoalStr \in CalcGoalStrs
    /\ calorieLog = Stringify(1, consumedCalories)
    /\ storedGoal = GoalItem(dailyCalorieGoalStr)
    /\ storage = "ok"
    /\ darkMode = loadDarkMode("absent")
    /\ darkModeItem = String(darkMode)
    /\ activeTab = "calorie"
    /\ image = NoImage
    /\ isAnalyzing = FALSE
    /\ analysis = NoAnalysis
    /\ error = NoError
    /\ cameraActive = FALSE
    /\ mealLogged = FALSE
    /\ IdleCoach
    /\ srcObject = 0
    /\ streams = [s \in StreamIds |-> "unused"]
    /\ videoWidth = 0
    /\ videoHeight = 0
    /\ pendingAnalysis = NoRequest
    /\ pendingReads = {}
    /\ uncaught = FALSE
    /\ stopCalls = 0
    /\ logCalls = 0
    /\ timesAdded = 0
    /\ resetPhase = "no"
    /\ dayLog = [d \in Days |-> IF d = 1 THEN consumedCalories ELSE 0]
    /\ runSum = consumedCalories

NextCalc ==
    \/ setDailyCalorieGoalStr(CalcGoalStrs)
    \/ resetDay

SpecCalc == InitCalc /\ [][NextCalc]_vars

----------------------------------------------------------------------------
(* Page load on its own: a page is open on the initial screen, the storage *)
(* of its origin holds whatever other code, an older version or the user   *)
(* left there, and the page is loaded again                                *)

(* the in-memory state of a page that shows the initial screen, nothing in *)
(* flight                                                                  *)
IdleSession ==
    /\ activeTab = "calorie"
    /\ image = NoImage
    /\ isAnalyzing = FALSE
    /\ analysis = NoAnalysis
    /\ error = NoError
    /\ cameraActive = FALSE
    /\ mealLogged = FALSE
    /\ IdleCoach
    /\ srcObject = 0
    /\ streams = [s \in StreamIds |-> "unused"]
    /\ videoWidth = 0
    /\ videoHeight = 0
    /\ pendingAnalysis = NoRequest
    /\ pendingReads = {}
    /\ uncaught = FALSE
    /\ stopCalls = 0
    /\ logCalls = 0
    /\ timesAdded = 0
    /\ resetPhase = "no"

(* calories values a stored record can hold: integer part and kind *)
StoredValues == {<<0, "integer">>, <<600, "integer">>, <<1500, "integer">>,
                 <<0 - 5, "integer">>, <<1, "fraction">>, <<0, "undefined">>,
                 <<0, "null">>, <<0, "string">>}

StoredItems ==
    {[kind |-> k, date |-> 0, calories |-> 0, calKind |-> "integer"] :
        k \in {"absent", "empty", "notjson", "jsonnull", "scalar"}}
    \cup {[kind |-> "record", date |-> d, calories |-> v[1], calKind |-> v[2]] :
            d \in {0} \cup Days, v \in StoredValues}

StoredGoalItems == {NoGoalItem, GoalItem(<<>>), GoalItem(<<"a", "b", "c">>),
                    GoalItem(<<"1", "8", "0", "0">>)}

InitLoad ==
    /\ today \in Days
    /\ calorieLog \in StoredItems
    /\ storedGoal \in StoredGoalItems
    /\ storage = "ok"
    /\ darkMode = loadDarkMode("absent")
    /\ darkModeItem = String(darkMode)
    /\ consumedCalories = 0
    /\ consumedKind = "integer"
    /\ dailyCalorieGoalStr = DefaultGoalStr
    /\ IdleSession
    /\ dayLog = [d \in Days |-> 0]
    /\ runSum = 0

NextLoad == restart

SpecLoad == InitLoad /\ [][NextLoad]_vars

----------------------------------------------------------------------------
(* The ledger and goal panel while localStorage stops working: the quota   *)
(* is used up by other code of the origin, or access is blocked            *)

StorageModes == {"ok", "full", "denied"}

storageBreaks ==
    \E mode \in StorageModes \ {"ok"} :
        /\ storage = "ok"
        /\ storage' = mode
        /\ UNCHANGED <<themeVars, ledgerVars, cameraVars, analysisVars, coachVars, activeTab,
                       image, error, mealLogged, pendingReads, uncaught, stopCalls>>

InitStorage ==
    /\ today = 1
    /\ consumedCalories \in CalcTotals
    /\ consumedKind = "integer"
    /\ dailyCalorieGoalStr = DefaultGoalStr
    /\ calorieLog = Stringify(1, consumedCalories)
    /\ storedGoal = GoalItem(DefaultGoalStr)
    /\ storage = "ok"
    /\ darkMode = loadDarkMode("absent")
    /\ darkModeItem = String(darkMode)
    /\ IdleSession
    /\ dayLog = [d \in Days |-> IF d = 1 THEN consumedCalories ELSE 0]
    /\ runSum = consumedCalories

(* a page taken down by an uncaught error handles no more events; it can   *)
(* only be loaded again                                                    *)
NextStorage ==
    \/ storageBreaks
    \/ restart
    \/ ~uncaught /\ resetDay
    \/ ~uncaught /\ setDailyCalorieGoalStr(GoalStrs)

SpecStorage == InitStorage /\ [][NextStorage]_vars

----------------------------------------------------------------------------
(* The four service requests: photo analysis from an upload, workout plan, *)
(* journey and exercise info, each resolving or failing                    *)

JourneyPayloads == {Payload("json", 0, "integer", TRUE), Payload("notjson", 0, "integer", FALSE)}

(* a page loaded on a day on which one meal has been logged *)
InitRequests ==
    /\ today = 1
    /\ consumedCalories = 600
    /\ consumedKind = "integer"
    /\ calorieLog = Stringify(1, consumedCalories)
    /\ dailyCalorieGoalStr = DefaultGoalStr
    /\ storedGoal = GoalItem(DefaultGoalStr)
    /\ storage = "ok"
    /\ darkMode = loadDarkMode("absent")
    /\ darkModeItem = String(darkMode)
    /\ IdleSession
    /\ dayLog = [d \in Days |-> IF d = 1 THEN consumedCalories ELSE 0]
    /\ runSum = consumedCalories

NextRequests ==
    \/ selectTab
    \/ reset
    \/ handleFileUpload(Files)
    \/ readerLoadEnd
    \/ handleAnalyze
    \/ handleAnalyzeResolved
    \/ handleAnalyzeFailed
    \/ setExercise
    \/ setJourneyFrom
    \/ setJourneyTo
    \/ handleGenerateWorkout
    \/ handleGenerateWorkoutResolved
    \/ handleGenerateWorkoutFailed
    \/ handleCalculateJourney
    \/ handleCalculateJourneyResponse(JourneyPayloads)
    \/ handleCalculateJourneyFailed
    \/ handleExerciseClick
    \/ getExerciseInfoText
    \/ handleExerciseClickResolved
    \/ handleExerciseClickFailed
    \/ closeExercise

SpecRequests == InitRequests /\ [][NextRequests]_vars

----------------------------------------------------------------------------
(* The service answers anything: well-formed results, malformed payloads,  *)
(* and totals that are numbers but not natural numbers                     *)

MalformedPayloads ==
    {Payload("empty", 0, "undefined", FALSE),
     Payload("notjson", 0, "undefined", FALSE),
     Payload("null", 0, "undefined", FALSE),
     Payload("json", 0, "undefined", TRUE),
     Payload("json", 600, "integer", FALSE)}

OddTotals == {0 - 600}

ServicePayloads ==
    MalformedPayloads
      \cup {WellFormed(600)}
      \cup {WellFormed(total) : total \in OddTotals}

JourneyAnswers ==
    {Payload("json", 0, "integer", TRUE), Payload("empty", 0, "undefined", FALSE),
     Payload("notjson", 0, "undefined", FALSE)}

NextService ==
    \/ ~uncaught /\ selectTab
    \/ ~uncaught /\ reset
    \/ ~uncaught /\ resetDay
    \/ ~uncaught /\ handleFileUpload(Files)
    \/ ~uncaught /\ readerLoadEnd
    \/ ~uncaught /\ handleAnalyze
    \/ ~uncaught /\ handleAnalyzeResponse(ServicePayloads)
    \/ ~uncaught /\ handleAnalyzeFailed
    \/ ~uncaught /\ handleLogMeal
    \/ ~uncaught /\ setJourneyFrom
    \/ ~uncaught /\ setJourneyTo
    \/ ~uncaught /\ handleCalculateJourney
    \/ ~uncaught /\ handleCalculateJourneyResponse(JourneyAnswers)

SpecService == Init /\ [][NextService]_vars

----------------------------------------------------------------------------
(* The goal next to the ledger: the goal input, meals logged, Reset Day    *)
(* and page loads                                                          *)

GoalInputs == CalcGoalStrs \cup {<<"a", "b", "c">>}

NextGoal ==
    \/ setDailyCalorieGoalStr(GoalInputs)
    \/ resetDay
    \/ handleFileUpload(Files)
    \/ readerLoadEnd
    \/ handleAnalyze
    \/ handleAnalyzeResolved
    \/ handleLogMeal
    \/ reset
    \/ restart

SpecGoal == Init /\ [][NextGoal]_vars

----------------------------------------------------------------------------
(* Capture on its own: a camera that can hand out one stream more, and two *)
(* files to pick from                                                      *)

CaptureStreams == 1..(MaxStreams + 1)
CaptureFiles == {1, 2}

InitCapture ==
    /\ today = 1
    /\ consumedCalories = loadConsumedCalories(NoItem, 1)
    /\ consumedKind = loadConsumedKind(NoItem, 1)
    /\ dailyCalorieGoalStr = loadGoalStr(NoGoalItem)
    /\ calorieLog = Stringify(1, loadConsumedCalories(NoItem, 1))
    /\ storedGoal = GoalItem(loadGoalStr(NoGoalItem))
    /\ storage = "ok"
    /\ darkMode = loadDarkMode("absent")
    /\ darkModeItem = String(darkMode)
    /\ activeTab = "calorie"
    /\ image = NoImage
    /\ isAnalyzing = FALSE
    /\ analysis = NoAnalysis
    /\ error = NoError
    /\ cameraActive = FALSE
    /\ mealLogged = FALSE
    /\ IdleCoach
    /\ srcObject = 0
    /\ streams = [s \in CaptureStreams |-> "unused"]
    /\ videoWidth = 0
    /\ videoHeight = 0
    /\ pendingAnalysis = NoRequest
    /\ pendingReads = {}
    /\ uncaught = FALSE
    /\ stopCalls = 0
    /\ logCalls = 0
    /\ timesAdded = 0
    /\ resetPhase = "no"
    /\ dayLog = [d \in Days |-> 0]
    /\ runSum = 0

NextCapture ==
    \/ startCamera
    \/ startCameraResolved
    \/ startCameraFailed
    \/ stopCamera
    \/ captureImage
    \/ handleFileUpload(CaptureFiles)
    \/ readerLoadEnd
    \/ reset

SpecCapture == InitCapture /\ [][NextCapture]_vars

----------------------------------------------------------------------------
(* The ledger across page deaths: meals logged over two days, Reset Day,   *)
(* page loads, and pages that die between a change of the total and its    *)
(* write                                                                   *)

NextCrash ==
    \/ handleFileUpload(Files)
    \/ readerLoadEnd
    \/ handleAnalyze
    \/ handleAnalyzeResolved
    \/ handleLogMeal
    \/ reset
    \/ resetDay
    \/ dayChange
    \/ restart
    \/ logMealCrashed
    \/ resetDayCrashed

SpecCrash == Init /\ [][NextCrash]_vars

----------------------------------------------------------------------------
(* reset() and the tab buttons among the steps that fill what reset clears *)
(* and the steps that change what it keeps                                 *)

NextReset ==
    \/ selectTab
    \/ reset
    \/ setDarkMode
    \/ setDailyCalorieGoalStr(GoalStrs)
    \/ handleLogMeal
    \/ startCamera
    \/ startCameraResolved
    \/ startCameraFailed
    \/ handleFileUpload(Files)
    \/ readerLoadEnd
    \/ handleAnalyze
    \/ handleAnalyzeResolved
    \/ setExercise
    \/ setJourneyFrom
    \/ setJourneyTo
    \/ handleGenerateWorkout
    \/ handleGenerateWorkoutResolved
    \/ handleCalculateJourney
    \/ handleCalculateJourneyResponse(JourneyPayloads)

SpecReset == Init /\ [][NextReset]_vars

----------------------------------------------------------------------------
(* The four handlers called with and without their inputs *)

NextInputs ==
    \/ selectTab
    \/ handleFileUpload(Files)
    \/ readerLoadEnd
    \/ setExercise
    \/ setJourneyFrom
    \/ setJourneyTo
    \/ handleAnalyzeCall
    \/ handleAnalyzeResolved
    \/ handleGenerateWorkoutCall
    \/ handleGenerateWorkoutResolved
    \/ handleCalculateJourneyCall
    \/ handleCalculateJourneyResponse(JourneyPayloads)
    \/ handleExerciseClick
    \/ getExerciseInfoText
    \/ handleExerciseClickResolved
    \/ handleExerciseClickFailed
    \/ closeExercise

SpecInputs == Init /\ [][NextInputs]_vars

----------------------------------------------------------------------------
(* Properties *)

Max(a, b) == IF a >= b THEN a ELSE b
Min(a, b) == IF a <= b THEN a ELSE b
Abs(a) == IF a >= 0 THEN a ELSE 0 - a

(* C1: a stored total of an earlier day is never carried into today: the  *)
(* ledger read on a day other than the record's gives 0, and a meal of     *)
(* amount A logged on such a day makes the record {today, A}, also in a    *)
(* session that has been running since the record's day.                   *)
C1_StaleTotalDropped ==
    [][/\ (restart /\ calorieLog.date # today) => consumedCalories' = 0
       /\ (handleLogMeal /\ logMealApplies(analysis, mealLogged)
             /\ calorieLog.date # today)
          => calorieLog' = Stringify(today, analysis.totalCalories)]_vars

(* C2: the stored record's calories are the sum of the amounts logged on   *)
(* the day its date names, since that day's last reset.                    *)
C2_RecordIsItsDaysSum ==
    calorieLog.kind = "record" => calorieLog.calories = dayLog[calorieLog.date]

(* C3: one analysis result is added to the total at most once: the first   *)
(* handleLogMeal adds its totalCalories and sets mealLogged, every later   *)
(* one leaves the total alone.                                             *)
C3_LoggedOnce ==
    /\ [](timesAdded <= 1)
    /\ [][handleLogMeal =>
            IF mealLogged
            THEN consumedCalories' = consumedCalories /\ mealLogged'
            ELSE /\ consumedCalories' = consumedCalories + analysis.totalCalories
                 /\ mealLogged']_vars

(* a second handleLogMeal on an analysis already logged has run *)
C3_Witness ==
    /\ logCalls = 2
    /\ timesAdded = 1
    /\ mealLogged
    /\ consumedCalories = analysis.totalCalories
    /\ consumedCalories > 0

C5_TotalIsSum ==
    /\ consumedCalories = runSum
    /\ remainingCalories = dailyCalorieGoal - runSum

(* 600 and 900 logged against a goal of 1000: 1500 eaten, 500 over *)
C5_Witness ==
    /\ runSum = 1500
    /\ dayLog[today] = 1500
    /\ dailyCalorieGoal = 1000
    /\ remainingCalories = 0 - 500

(* C6: remainingCalories is goal - consumed unclamped, isOverGoal holds    *)
(* exactly when it is negative, and progressPercent is never above 100.    *)
C6_RemainingAndProgress ==
    /\ remainingCalories + consumedCalories = dailyCalorieGoal
    /\ consumedCalories > dailyCalorieGoal => remainingCalories < 0
    /\ isOverGoal <=> remainingCalories < 0
    /\ ~JsGreater(progressPercent, 100)

(* goal 0 with something eaten: the bar is full, 600 over *)
C6_Witness ==
    /\ dailyCalorieGoal = 0
    /\ consumedCalories = 600
    /\ remainingCalories = 0 - 600
    /\ isOverGoal
    /\ progressPercent = JsNum(100, 1)

(* The spec's scaling rule for a frame of w by h: the longer side becomes  *)
(* min(side, 1024), the other side is scaled by the same ratio, to within  *)
(* less than a pixel.                                                      *)
FollowsScalingRule(w, h, cw, ch) ==
    IF w >= h
    THEN cw = Min(w, maxDim) /\ Abs(ch * w - h * cw) < w
    ELSE ch = Min(h, maxDim) /\ Abs(cw * h - w * ch) < h

(* C7: for a frame of w by h, w, h > 0, the canvas captureImage draws on   *)
(* is at most 1024 on its longer side, follows the scaling rule (also for  *)
(* w = h), and is w by h when neither side is over 1024.                   *)
C7_CanvasSize ==
    [][(captureImage /\ videoWidth > 0 /\ videoHeight > 0) =>
          /\ Max(image'.width, image'.height) <= maxDim
          /\ FollowsScalingRule(videoWidth, videoHeight, image'.width, image'.height)
          /\ Max(videoWidth, videoHeight) <= maxDim
             => image'.width = videoWidth /\ image'.height = videoHeight]_vars

(* C8: while capture mode is inactive no camera stream is live. *)
C8_NoLiveStreamWhenInactive ==
    ~cameraActive => \A s \in StreamIds : streams[s] # "live"

(* C9: stopCamera throws nothing, leaves the attached stream (if any)      *)
(* stopped, no stream attached and cameraActive false; a second call right *)
(* after the first changes nothing.                                        *)
C9_StopCameraIdempotent ==
    [][stopCamera =>
          /\ ~uncaught'
          /\ srcObject # 0 => streams'[srcObject] = "ended"
          /\ \A s \in StreamIds : s # srcObject => streams'[s] = streams[s]
          /\ srcObject' = 0
          /\ ~cameraActive'
          /\ stopCalls = 1 =>
                /\ streams' = streams
                /\ UNCHANGED <<cameraActive, srcObject, image, error, analysis,
                               mealLogged, consumedCalories>>]_vars

(* stopCamera has been called twice in a row, the first call on the camera *)
(* screen                                                                  *)
C9_Witness ==
    /\ stopCalls = 2
    /\ ~cameraActive
    /\ srcObject = 0
    /\ \E s \in StreamIds : streams[s] = "ended"

(* C10: when camera acquisition fails, the camera error message is set,    *)
(* cameraActive is false, no stream is attached and nothing is thrown.     *)
C10_CameraFailure ==
    [][startCameraFailed =>
          /\ error' = CameraError
          /\ ~cameraActive'
          /\ srcObject' = 0
          /\ ~uncaught']_vars

(* a getUserMedia request has failed *)
C10_Witness ==
    /\ error = CameraError
    /\ ~cameraActive
    /\ srcObject = 0
    /\ \E s \in StreamIds : streams[s] = "ended"
    /\ \A s \in StreamIds : streams[s] # "live"

(* C11: captureImage ends, in the same step, with the image set, the       *)
(* stream it drew from stopped and detached and cameraActive false; a      *)
(* captured image is never held while the stream it came from is live.     *)
C11_CaptureStopsCamera ==
    /\ [](image.src = "camera" /\ image.id # 0 => streams[image.id] = "ended")
    /\ [][captureImage =>
            /\ image' # NoImage
            /\ image'.id = srcObject
            /\ srcObject # 0 => streams'[srcObject] = "ended"
            /\ srcObject' = 0
            /\ ~cameraActive']_vars

(* a frame of an attached stream has been captured *)
C11_Witness ==
    /\ image.src = "camera"
    /\ image.id # 0
    /\ image.width = maxDim
    /\ streams[image.id] = "ended"
    /\ PreviewScreen

(* C12: a completed file read makes the image the file's data URI as it is *)
(* (not resized), clears the analysis and the mealLogged flag, and an      *)
(* analysis held together with an uploaded image was computed for it.      *)
C12_UploadInvalidatesAnalysis ==
    /\ [][(readerLoadEnd /\ image' # NoImage) =>
            /\ \E f \in pendingReads : image' = FileImage(f)
            /\ analysis' = NoAnalysis
            /\ ~mealLogged']_vars
    /\ [](image.src = "file" /\ analysis.present => analysis.of = image)

(* a stored item that is a well-formed ledger record of the day *)
WellFormedRecord(item, day) ==
    /\ item.kind = "record"
    /\ item.date = day
    /\ item.calKind = "integer"
    /\ item.calories >= 0

(* C13: loadConsumedCalories never throws and returns a non-negative       *)
(* integer: the stored total for a well-formed record dated today, 0 for   *)
(* everything else (no item, no JSON, no object, another date, a calories  *)
(* field that is missing or no number).                                    *)
C13_LoadIsTotal ==
    [][restart =>
          /\ ~uncaught'
          /\ consumedKind' = "integer"
          /\ consumedCalories' >= 0
          /\ consumedCalories' = IF WellFormedRecord(calorieLog, today)
                                 THEN calorieLog.calories ELSE 0]_vars

(* C14: a localStorage access that fails (reading the ledger or the goal   *)
(* at start-up, writing the ledger or the goal after a change) is          *)
(* swallowed: nothing is thrown out of the application, no error is shown, *)
(* and the total in memory is 0 after a load and otherwise what the step   *)
(* made it.                                                                *)
C14_StorageFailureSwallowed ==
    /\ [](~uncaught /\ error = NoError)
    /\ [][(restart /\ storage = "denied") => consumedCalories' = 0]_vars
    /\ [][(resetDay /\ storage # "ok") => consumedCalories' = 0]_vars

ResultsKept == UNCHANGED <<analysis, workoutPlan, journeyPlan, selectedExercise>>
LedgerKept == UNCHANGED <<consumedCalories, consumedKind, calorieLog>>
NoFurtherRequest ==
    /\ pendingCalls' \subseteq pendingCalls
    /\ \A phase \in DOMAIN exerciseCalls : exerciseCalls'[phase] <= exerciseCalls[phase]
    /\ pendingAnalysis' \in {pendingAnalysis, NoRequest}
    /\ pendingReads' = pendingReads

(* C15: a failed analysis, workout, journey or exercise-info request sets  *)
(* that handler's message, clears its loading flag, sends nothing further, *)
(* and leaves the four held results and the ledger as they were; where the *)
(* form that sent the request is still on screen, its button works again.  *)
C15_RequestFailure ==
    [][/\ handleAnalyzeFailed =>
            /\ error' = AnalysisError /\ ~isAnalyzing'
            /\ pendingAnalysis' = NoRequest
            /\ NoFurtherRequest /\ ResultsKept /\ LedgerKept
            /\ PreviewScreen => (~analysis'.present /\ image' = image)
       /\ handleGenerateWorkoutFailed =>
            /\ error' = WorkoutError /\ ~isPlanning'
            /\ "workout" \notin pendingCalls'
            /\ NoFurtherRequest /\ ResultsKept /\ LedgerKept
            /\ (activeTab = "workout" /\ ~workoutPlan.present)
                  => exercise' = exercise
       /\ (handleCalculateJourneyFailed
             \/ (handleCalculateJourneyResponse(JourneyPayloads) /\ error' # error)) =>
            /\ error' = JourneyError /\ ~isCalculatingJourney'
            /\ "journey" \notin pendingCalls'
            /\ NoFurtherRequest /\ ResultsKept /\ LedgerKept
            /\ (activeTab = "journey" /\ ~journeyPlan.present)
                  => (journeyFrom' = journeyFrom /\ journeyTo' = journeyTo)
       /\ handleExerciseClickFailed =>
            /\ error' = ExerciseError /\ ~isFetchingExercise'
            /\ exerciseCalls' = [exerciseCalls EXCEPT !["text"] = @ - 1]
            /\ NoFurtherRequest /\ ResultsKept /\ LedgerKept]_vars

C15_Witness ==
    /\ error = AnalysisError
    /\ ~isAnalyzing
    /\ ~pendingAnalysis.sent
    /\ image # NoImage
    /\ ~analysis.present
    /\ consumedCalories > 0

(* C16: a malformed payload (no text, text that is not JSON, JSON without  *)
(* items or totalCalories) ends in the handler's error message and is      *)
(* never held as analysis or journeyPlan; the page stays mounted.          *)
C16_MalformedRejected ==
    /\ ~uncaught
    /\ analysis.present => (analysis.hasItems /\ analysis.totalKind # "undefined")
    /\ journeyPlan.present => journeyPlan.complete

(* C18: the consumed total is an integer and is never negative. *)
C18_TotalIsNatural == consumedKind = "integer" /\ consumedCalories >= 0

(* what parseInt(str) || 0 is for the strings typed *)
ExpectedGoals ==
    {<<<<"2", "0", "0", "0">>, 2000>>, <<<<"2", "5", "0", "0">>, 2500>>,
     <<<<"1", "0", "0", "0">>, 1000>>, <<<<"0">>, 0>>, <<<<>>, 0>>,
     <<<<"a", "b", "c">>, 0>>, <<<<"-", "5">>, 0 - 5>>, <<<<"1", ".", "5">>, 1>>,
     <<<<"1", "e", "3">>, 1>>, <<<<"7">>, 7>>}

(* C17: the goal in effect is the integer parse of the stored goal string, *)
(* 0 when the string is empty or not a number; the goal has its own key:   *)
(* changing it leaves the record and the total alone, and logging a meal   *)
(* or Reset Day leaves the goal and its stored string alone.               *)
C17_GoalIndependent ==
    /\ [](/\ storedGoal = GoalItem(dailyCalorieGoalStr)
          /\ \E e \in ExpectedGoals : e[1] = storedGoal.text /\ e[2] = dailyCalorieGoal)
    /\ [][setDailyCalorieGoalStr(GoalInputs) =>
            UNCHANGED <<calorieLog, consumedCalories, consumedKind>>]_vars
    /\ [][(handleLogMeal \/ resetDay) =>
            UNCHANGED <<storedGoal, dailyCalorieGoalStr>>]_vars

C17_Witness ==
    /\ dailyCalorieGoalStr = <<>>
    /\ storedGoal = GoalItem(<<>>)
    /\ dailyCalorieGoal = 0
    /\ consumedCalories = 600
    /\ calorieLog = Stringify(today, 600)

(* C19: at most one camera stream is pending or live at a time, and at     *)
(* most one file read is pending at a time.                                *)
C19_NoOverlap ==
    /\ Cardinality({s \in DOMAIN streams : streams[s] \in {"pending", "live"}}) <= 1
    /\ Cardinality(pendingReads) <= 1

(* C20: after captureImage and after a file read that delivers an image,   *)
(* mealLogged is false, so Log Meal applies to the next analysis.          *)
C20_NewImageNotLogged ==
    [][(captureImage \/ (readerLoadEnd /\ image' # NoImage)) =>
         /\ image' # NoImage
         /\ ~mealLogged'
         /\ analysis'.present => logMealApplies(analysis', mealLogged')]_vars

C20_Witness ==
    /\ image.src = "camera"
    /\ ~cameraActive
    /\ ~mealLogged
    /\ consumedCalories > 0
    /\ timesAdded = 0

(* C21: after a meal is logged and after Reset Day the stored record is    *)
(* {date: today, calories: the total in memory}, and loading it on the     *)
(* same day gives that total back.                                         *)
C21_WriteThenLoad ==
    [][((handleLogMeal /\ logMealApplies(analysis, mealLogged)) \/ resetDay) =>
         /\ calorieLog' = Stringify(today', consumedCalories')
         /\ loadConsumedCalories(calorieLog', today') = consumedCalories']_vars

(* C22: when the page dies between a change of the total and its write,    *)
(* the total read by the next load on the same day is short of the total   *)
(* in memory by no more than the increment being logged; after a lost      *)
(* Reset Day it is no more than one logged increment.                      *)
C22_CrashLosesLastOnly ==
    [][/\ logMealCrashed =>
            /\ consumedCalories' <= consumedCalories + analysis.totalCalories
            /\ consumedCalories' >= consumedCalories
       /\ resetDayCrashed =>
            \E amount \in Amounts : consumedCalories' <= amount]_vars

Triggers ==
    \/ handleAnalyze
    \/ handleGenerateWorkout
    \/ handleCalculateJourney
    \/ handleExerciseClick

(* C23: a trigger of analyze, generate-workout or calculate-journey sends  *)
(* one request; an exercise click sends one text request and, once that    *)
(* has succeeded, one image request; no other step sends anything, and a   *)
(* failed request is gone after its handler has run.                       *)
C23_NoAutomaticRetry ==
    [][/\ handleAnalyze =>
            /\ ~pendingAnalysis.sent /\ pendingAnalysis'.sent
            /\ pendingCalls' = pendingCalls
       /\ handleGenerateWorkout =>
            /\ "workout" \notin pendingCalls
            /\ pendingCalls' = pendingCalls \cup {"workout"}
            /\ pendingAnalysis' = pendingAnalysis
       /\ handleCalculateJourney =>
            /\ "journey" \notin pendingCalls
            /\ pendingCalls' = pendingCalls \cup {"journey"}
            /\ pendingAnalysis' = pendingAnalysis
       /\ handleExerciseClick =>
            /\ exerciseCalls' = [exerciseCalls EXCEPT !["text"] = @ + 1]
            /\ pendingCalls' = pendingCalls
            /\ pendingAnalysis' = pendingAnalysis
       /\ getExerciseInfoText =>
            /\ exerciseCalls'["text"] = exerciseCalls["text"] - 1
            /\ callsInFlight' = callsInFlight
            /\ pendingCalls' = pendingCalls
            /\ pendingAnalysis' = pendingAnalysis
       /\ ~(Triggers \/ getExerciseInfoText) =>
            /\ pendingCalls' \subseteq pendingCalls
            /\ pendingAnalysis' \in {pendingAnalysis, NoRequest}
            /\ \A phase \in DOMAIN exerciseCalls :
                  exerciseCalls'[phase] <= exerciseCalls[phase]
       /\ handleAnalyzeFailed => ~pendingAnalysis'.sent
       /\ handleGenerateWorkoutFailed => "workout" \notin pendingCalls'
       /\ (handleCalculateJourneyFailed
             \/ (handleCalculateJourneyResponse(JourneyPayloads) /\ error' = JourneyError))
            => "journey" \notin pendingCalls'
       /\ handleExerciseClickFailed =>
            exerciseCalls' = [exerciseCalls EXCEPT !["text"] = @ - 1]]_vars

C23_Witness ==
    /\ error = WorkoutError
    /\ pendingCalls = {}
    /\ ~pendingAnalysis.sent
    /\ ~isPlanning
    /\ ~workoutPlan.present
    /\ exercise # <<>>

(* C24: an analysis held together with an image was computed from that     *)
(* image, and Log Meal adds only calories computed for the image shown.    *)
C24_AnalysisOfImageHeld ==
    /\ []((analysis.present /\ image # NoImage) => analysis.of = image)
    /\ [][(handleLogMeal /\ logMealApplies(analysis, mealLogged)) =>
            analysis.of = image]_vars

(* C25: each loading flag is true exactly while a request of its action is *)
(* in flight; the step that settles the request, either way, clears it.    *)
C25_FlagWhileInFlight ==
    /\ [](/\ isAnalyzing <=> pendingAnalysis.sent
          /\ isPlanning <=> "workout" \in pendingCalls
          /\ isCalculatingJourney <=> "journey" \in pendingCalls
          /\ isFetchingExercise <=> callsInFlight > 0)
    /\ [][/\ handleAnalyze => isAnalyzing'
          /\ handleGenerateWorkout => isPlanning'
          /\ handleCalculateJourney => isCalculatingJourney'
          /\ handleExerciseClick => isFetchingExercise'
          /\ (handleAnalyzeResolved \/ handleAnalyzeFailed) => ~isAnalyzing'
          /\ (handleGenerateWorkoutResolved \/ handleGenerateWorkoutFailed) => ~isPlanning'
          /\ (handleCalculateJourneyResponse(JourneyPayloads)
                \/ handleCalculateJourneyFailed) => ~isCalculatingJourney'
          /\ (handleExerciseClickResolved \/ handleExerciseClickFailed)
                => ~isFetchingExercise']_vars

(* C26: mealLogged implies that an analysis is held; a step that clears    *)
(* the analysis leaves mealLogged false, and handleLogMeal sets mealLogged *)
(* only with an analysis held.                                             *)
C26_LoggedHasAnalysis ==
    /\ [](mealLogged => analysis.present)
    /\ [][/\ (analysis.present /\ ~analysis'.present) => ~mealLogged'
          /\ (handleLogMeal /\ ~mealLogged /\ mealLogged') => analysis.present
          /\ (~mealLogged /\ mealLogged') => handleLogMeal]_vars

C26_Witness ==
    /\ ~analysis.present
    /\ ~mealLogged
    /\ image.src = "file"
    /\ pendingReads = {}
    /\ dayLog[today] > 0

(* C27: reset, alone or behind a tab button, clears image, analysis,       *)
(* workoutPlan, journeyPlan, the exercise and journey inputs, error,       *)
(* cameraActive and mealLogged, and leaves the consumed total, the daily   *)
(* goal, darkMode and the three stored items as they were.                 *)
C27_ResetFrame ==
    [][(reset \/ selectTab) =>
         /\ image' = NoImage
         /\ analysis' = NoAnalysis
         /\ workoutPlan' = NoResult
         /\ journeyPlan' = NoResult
         /\ exercise' = <<>>
         /\ journeyFrom' = <<>>
         /\ journeyTo' = <<>>
         /\ error' = NoError
         /\ ~cameraActive'
         /\ ~mealLogged'
         /\ consumedCalories' = consumedCalories
         /\ consumedKind' = consumedKind
         /\ dailyCalorieGoalStr' = dailyCalorieGoalStr
         /\ darkMode' = darkMode
         /\ calorieLog' = calorieLog
         /\ storedGoal' = storedGoal
         /\ darkModeItem' = darkModeItem]_vars

C27_Witness ==
    /\ activeTab = "journey"
    /\ "workout" \in pendingCalls
    /\ exercise = <<>>
    /\ image = NoImage
    /\ darkMode
    /\ darkModeItem = "true"
    /\ consumedCalories > 0
    /\ dailyCalorieGoalStr # DefaultGoalStr

(* C28: a handler called without its input sends no request and sets no    *)
(* loading flag.  handleAnalyze without an image changes nothing;          *)
(* handleGenerateWorkout without an exercise and handleCalculateJourney    *)
(* without an origin or a destination set their validation message and     *)
(* nothing else; handleExerciseClick on no name, or on a name with 'rest'  *)
(* or 'none' in it in any case, changes nothing.                           *)
C28_MissingInput ==
    [][/\ (handleAnalyzeCall /\ image = NoImage) => UNCHANGED vars
       /\ (handleGenerateWorkoutCall /\ exercise = <<>>) =>
            /\ error' = "Please enter an exercise."
            /\ UNCHANGED <<mealVars, coachVars, activeTab>>
       /\ (handleCalculateJourneyCall /\ (journeyFrom = <<>> \/ journeyTo = <<>>)) =>
            /\ error' = "Please enter both starting point and destination."
            /\ UNCHANGED <<mealVars, coachVars, activeTab>>
       /\ \A name \in {<<>>, <<"R", "e", "s", "t">>, <<"N", "O", "N", "E">>,
                        <<"F", "o", "r", "e", "s", "t">>} :
            handleExerciseClickOn(name) => UNCHANGED vars]_vars

C28_Witness ==
    /\ activeTab = "workout"
    /\ error = ExerciseMissing
    /\ exercise = <<>>
    /\ workoutPlan.present
    /\ ~isPlanning
    /\ ~isFetchingExercise
    /\ pendingCalls = {}
    /\ callsInFlight = 0

(* C29: getExerciseInfo fails only when its text request fails.  A failed  *)
(* image request is swallowed: the result carries the explanation and no   *)
(* imageUrl.  An empty text gives the default explanation, and the image   *)
(* request is sent only once the text request has succeeded.               *)
C29_ImageFailureSwallowed ==
    [][/\ \A phase \in {"image", "imageDefault"} :
            getExerciseInfoReturned(phase, "failed") =>
                /\ selectedExercise'.present
                /\ selectedExercise'.explanation =
                      (IF phase = "imageDefault" THEN "default" ELSE "text")
                /\ ~selectedExercise'.hasImage
                /\ error' = error
       /\ (exerciseCalls'["image"] + exerciseCalls'["imageDefault"]
              < exerciseCalls["image"] + exerciseCalls["imageDefault"]) =>
            (selectedExercise'.present /\ error' = error)
       /\ (error' = ExerciseError /\ error # ExerciseError) =>
            /\ exerciseCalls'["text"] = exerciseCalls["text"] - 1
            /\ exerciseCalls'["image"] = exerciseCalls["image"]
            /\ exerciseCalls'["imageDefault"] = exerciseCalls["imageDefault"]
       /\ (exerciseCalls'["image"] > exerciseCalls["image"]
              \/ exerciseCalls'["imageDefault"] > exerciseCalls["imageDefault"]) =>
            /\ exerciseCalls["text"] > 0
            /\ exerciseCalls'["text"] = exerciseCalls["text"] - 1
            /\ error' = error]_vars

C29_Witness ==
    /\ selectedExercise = ExerciseInfo("default", FALSE)
    /\ error = NoError
    /\ ~isFetchingExercise
    /\ callsInFlight = 0
    /\ activeTab = "workout"

====
